---- MODULE Spec2Model ----
(***************************************************************************)
(* Model of the two scripts of .github/scripts:                            *)
(*   update_readmes.py         (script = "readmes")                        *)
(*   update_jekyll_readmes.py  (script = "jekyll")                         *)
(*                                                                         *)
(* Representation of strings.  A Python str is a sequence of tokens.  A    *)
(* path, a commit message and a file body are written character by         *)
(* character (each token one character); the string literals of the        *)
(* source that the scripts only ever copy ("## Recently Updated Files",    *)
(* "| [", the two markers, ...) are one opaque token each.  No opaque      *)
(* token can be spelled with the single characters the inputs use, so two  *)
(* texts are equal exactly when their token sequences are equal, and a     *)
(* marker occurs in a text exactly where its token occurs.                 *)
(*                                                                         *)
(* Operators take what they need more than once as a parameter rather      *)
(* than naming it in a LET, which keeps the expression TLC builds for      *)
(* each action small.                                                      *)
(***************************************************************************)
EXTENDS Integers, Sequences, FiniteSets, TLC

\* ------------------------------------------------------------------------
\* Bounds of the model
\* ------------------------------------------------------------------------
\* length of the commit history the API returns
MaxCommits == 2

\* invocations of the script in one behaviour (SpecRerun)
MaxRuns == 2

\* seconds the wall clock can advance in one behaviour
MaxNow == 1

\* ------------------------------------------------------------------------
\* Module-level constants of the scripts
\* ------------------------------------------------------------------------
NUM_FILES == 10

START_MARKER == "<!-- RECENT_CHANGES_START -->"

END_MARKER == "<!-- RECENT_CHANGES_END -->"

\* commits[:100]
COMMIT_LIMIT == 100

\* len(commit_msg) > 60
MSG_MAX == 60

\* commit_msg[:57] + "..."
MSG_KEEP == 57

\* f.read(500) in is_jekyll_file
FRONT_MATTER_READ == 500

NL == "\n"

BSL == "\\"

\* ------------------------------------------------------------------------
\* Python str operations, on token sequences
\* ------------------------------------------------------------------------
Min(a, b) == IF a <= b THEN a ELSE b

MinOf(S) == CHOOSE i \in S : \A j \in S : i <= j

MaxOf(S) == CHOOSE i \in S : \A j \in S : j <= i

FirstOr0(hits) == IF hits = {} THEN 0 ELSE MinOf(hits)

LastOr0(hits) == IF hits = {} THEN 0 ELSE MaxOf(hits)

\* s[:n]
Take(s, n) == SubSeq(s, 1, Min(n, Len(s)))

\* s[n:]   (n counted from 0, as in Python)
Drop(s, n) == SubSeq(s, Min(n, Len(s)) + 1, Len(s))

\* s.startswith(p)
StartsWith(s, p) == Len(p) <= Len(s) /\ SubSeq(s, 1, Len(p)) = p

\* s.endswith(p)
EndsWith(s, p) == Len(p) <= Len(s) /\ SubSeq(s, Len(s) - Len(p) + 1, Len(s)) = p

\* 1-based index of the first occurrence of sub in s at or after `from`; 0 if none
FindFrom(s, sub, from) ==
    FirstOr0({i \in from..(Len(s) - Len(sub) + 1) : SubSeq(s, i, i + Len(sub) - 1) = sub})

\* sub in s
Contains(s, sub) == FindFrom(s, sub, 1) # 0

\* 1-based index of the last occurrence of the character c in s; 0 if none
RFind(s, c) == LastOr0({i \in 1..Len(s) : s[i] = c})

RECURSIVE Replace(_, _, _)
RECURSIVE ReplaceAt(_, _, _, _)
\* s with the occurrence of old at i, and every later one, replaced by new
ReplaceAt(s, old, new, i) ==
    IF i = 0 THEN s
    ELSE SubSeq(s, 1, i - 1) \o new \o Replace(Drop(s, i + Len(old) - 1), old, new)

\* s.replace(old, new), old non-empty: every non-overlapping occurrence, left to right
Replace(s, old, new) == ReplaceAt(s, old, new, FindFrom(s, old, 1))

UPPER == <<"A","B","C","D","E","F","G","H","I","J","K","L","M",
           "N","O","P","Q","R","S","T","U","V","W","X","Y","Z">>

LOWER == <<"a","b","c","d","e","f","g","h","i","j","k","l","m",
           "n","o","p","q","r","s","t","u","v","w","x","y","z">>

DIGITS == {"0","1","2","3","4","5","6","7","8","9"}

WHITESPACE == {" ", NL, "\t", "\r"}

IsAsciiLetter(c) == \E i \in 1..Len(UPPER) : UPPER[i] = c \/ LOWER[i] = c

LowerChar(c) ==
    IF \E i \in 1..Len(UPPER) : UPPER[i] = c
    THEN LOWER[CHOOSE i \in 1..Len(UPPER) : UPPER[i] = c] ELSE c

UpperChar(c) ==
    IF \E i \in 1..Len(LOWER) : LOWER[i] = c
    THEN UPPER[CHOOSE i \in 1..Len(LOWER) : LOWER[i] = c] ELSE c

\* s.lower()
Lower(s) == [i \in 1..Len(s) |-> LowerChar(s[i])]

\* s.capitalize(): first character upper-cased, the rest lower-cased
Capitalize(s) == [i \in 1..Len(s) |-> IF i = 1 THEN UpperChar(s[i]) ELSE LowerChar(s[i])]

RECURSIVE LStrip(_)
LStrip(s) == IF s # <<>> /\ Head(s) \in WHITESPACE THEN LStrip(Tail(s)) ELSE s

RECURSIVE RStripChars(_, _)
\* s.rstrip(chars)
RStripChars(s, chars) ==
    IF s # <<>> /\ s[Len(s)] \in chars THEN RStripChars(SubSeq(s, 1, Len(s) - 1), chars) ELSE s

\* s.strip()
Strip(s) == RStripChars(LStrip(s), WHITESPACE)

RECURSIVE Concat(_, _, _)
\* pieces[lo] \o ... \o pieces[hi]
Concat(pieces, lo, hi) ==
    IF lo > hi THEN <<>>
    ELSE IF lo = hi THEN pieces[lo]
    ELSE Concat(pieces, lo, (lo + hi) \div 2) \o Concat(pieces, (lo + hi) \div 2 + 1, hi)

\* s[:i-1] when i # 0, else s
UpTo(s, i) == IF i = 0 THEN s ELSE SubSeq(s, 1, i - 1)

\* s.split('\n')[0]
FirstLine(s) == UpTo(s, FindFrom(s, <<NL>>, 1))

\* ------------------------------------------------------------------------
\* posixpath
\* ------------------------------------------------------------------------
\* head.rstrip('/') unless head is empty or all slashes
StripSlashes(head) ==
    IF head # <<>> /\ (\E i \in 1..Len(head) : head[i] # "/")
    THEN RStripChars(head, {"/"}) ELSE head

\* os.path.dirname(p)
dirname(p) == StripSlashes(SubSeq(p, 1, RFind(p, "/")))

\* os.path.basename(p)
basename(p) == Drop(p, RFind(p, "/"))

ExtAt(p, sepIndex, dotIndex) ==
    IF dotIndex > sepIndex /\ (\E k \in (sepIndex + 1)..(dotIndex - 1) : p[k] # ".")
    THEN Drop(p, dotIndex - 1) ELSE <<>>

\* os.path.splitext(p)[1]
splitext_ext(p) == ExtAt(p, RFind(p, "/"), RFind(p, "."))

RECURSIVE SplitPath(_)
RECURSIVE SplitAt(_, _)
\* p split at its first slash, which is at i (0: none)
SplitAt(p, i) ==
    IF UpTo(p, i) = <<>> \/ UpTo(p, i) = <<".">>
    THEN SplitPath(IF i = 0 THEN <<>> ELSE Drop(p, i))
    ELSE <<UpTo(p, i)>> \o SplitPath(IF i = 0 THEN <<>> ELSE Drop(p, i))

\* [x for x in normpath(p).split('/') if x], for p without ".." components
SplitPath(p) == IF p = <<>> THEN <<>> ELSE SplitAt(p, FindFrom(p, <<"/">>, 1))

RECURSIVE JoinPath(_)
\* os.path.join(*comps)
JoinPath(comps) ==
    IF comps = <<>> THEN <<>>
    ELSE IF Len(comps) = 1 THEN comps[1]
    ELSE comps[1] \o <<"/">> \o JoinPath(Tail(comps))

\* len(os.path.commonprefix([a, b])) on component lists
CommonLen(a, b) == MaxOf({n \in 0..Min(Len(a), Len(b)) : \A k \in 1..n : a[k] = b[k]})

JoinOrDot(rel_list) == IF rel_list = <<>> THEN <<".">> ELSE JoinPath(rel_list)

RelJoin(start_list, path_list, i) ==
    JoinOrDot([k \in 1..(Len(start_list) - i) |-> <<".", ".">>]
              \o SubSeq(path_list, i + 1, Len(path_list)))

RelFrom(start_list, path_list) ==
    RelJoin(start_list, path_list, CommonLen(start_list, path_list))

\* os.path.relpath(path, start); both relative to the same working directory
relpath(path, start) == RelFrom(SplitPath(start), SplitPath(path))

\* ------------------------------------------------------------------------
\* Exclusion Filter
\* ------------------------------------------------------------------------
\* A pattern r'^lit.*' is [kind |-> "prefix"], a pattern r'^lit$' is [kind |-> "exact"].
Pfx(lit) == [kind |-> "prefix", lit |-> lit]

Exact(lit) == [kind |-> "exact", lit |-> lit]

DOT_GIT == <<".","g","i","t">>

DOT_GITHUB == <<".","g","i","t","h","u","b">>

LICENSE == <<"L","I","C","E","N","S","E">>

DOT_GITIGNORE == <<".","g","i","t","i","g","n","o","r","e">>

SITE_DIR == <<"_","s","i","t","e">>

SASS_CACHE == <<".","s","a","s","s","-","c","a","c","h","e">>

JEKYLL_CACHE == <<".","j","e","k","y","l","l","-","c","a","c","h","e">>

VENDOR == <<"v","e","n","d","o","r">>

EXCLUDE_PATTERNS_README ==
    << Pfx(DOT_GIT), Pfx(DOT_GITHUB), Exact(LICENSE), Exact(DOT_GITIGNORE) >>

EXCLUDE_PATTERNS_JEKYLL ==
    << Pfx(DOT_GIT), Pfx(DOT_GITHUB), Exact(LICENSE), Exact(DOT_GITIGNORE),
       Pfx(SITE_DIR \o <<"/">>), Pfx(SASS_CACHE \o <<"/">>),
       Pfx(JEKYLL_CACHE \o <<"/">>), Pfx(VENDOR \o <<"/">>) >>

\* re.match(pattern, path): '$' also matches before one trailing newline
re_match(pattern, path) ==
    IF pattern.kind = "prefix" THEN StartsWith(path, pattern.lit)
    ELSE path = pattern.lit \/ path = pattern.lit \o <<NL>>

RECURSIVE ExcludeLoop(_, _)
\* for pattern in patterns: if re.match(pattern, path): return True / return False
ExcludeLoop(patterns, path) ==
    IF patterns = <<>> THEN FALSE
    ELSE IF re_match(Head(patterns), path) THEN TRUE
    ELSE ExcludeLoop(Tail(patterns), path)

\* ------------------------------------------------------------------------
\* Change Aggregator: the body of the loop over commits
\* ------------------------------------------------------------------------
\* datetime comparison; a date is <<day, second of the day>>
DateGT(a, b) == a[1] > b[1] \/ (a[1] = b[1] /\ a[2] > b[2])

\* position of path among the keys of the dict d (a sequence in insertion order); 0 if absent
KeyIndex(d, path) ==
    IF \E i \in 1..Len(d) : d[i].path = path
    THEN CHOOSE i \in 1..Len(d) : d[i].path = path ELSE 0

\* the value stored for a file touched by commit
Record(file_path, commit) ==
    [path           |-> file_path,
     date           |-> commit.date,
     commit_message |-> FirstLine(commit.message),
     commit_url     |-> commit.html_url,
     author         |-> commit.author]

NewerAt(d, k, commit_date) == k = 0 \/ DateGT(commit_date, d[k].date)

\* if file_path not in file_updates or commit_date > file_updates[file_path]['date']
\* unconditional overwrite: whichever commit is listed last wins
Newer_last_listed(d, file_path, commit_date) == TRUE

Newer(d, file_path, commit_date) == NewerAt(d, KeyIndex(d, file_path), commit_date)

DictSetAt(d, k, rec) == IF k = 0 THEN Append(d, rec) ELSE [d EXCEPT ![k] = rec]

\* file_updates[file_path] = {...}: a new key goes last, an old key keeps its place
DictSet(d, rec) == DictSetAt(d, KeyIndex(d, rec.path), rec)

\* ------------------------------------------------------------------------
\* Directory Scoper
\* ------------------------------------------------------------------------
PrefixOf(directory_path) ==
    IF directory_path = <<>> THEN <<>> ELSE directory_path \o <<"/">>

directory_prefix(directory) == PrefixOf(dirname(directory))

InDirectory(directory, prefix, all_file_updates) ==
    SelectSeq(all_file_updates, LAMBDA e : StartsWith(e.path, prefix) /\ e.path # directory)

\* the dict dir_files, in insertion order
dir_files(directory, all_file_updates) ==
    InDirectory(directory, directory_prefix(directory), all_file_updates)

\* x placed after the n elements of sorted that are not older than x
InsertAfter(sorted, x, n) == SubSeq(sorted, 1, n) \o <<x>> \o SubSeq(sorted, n + 1, Len(sorted))

InsertNewestFirst(sorted, x) ==
    InsertAfter(sorted, x, Cardinality({i \in 1..Len(sorted) : ~DateGT(x.date, sorted[i].date)}))

RECURSIVE SortedNewestFirst(_)
\* sorted(items, key=date, reverse=True): stable, equal dates keep their order
SortedNewestFirst(items) ==
    IF items = <<>> THEN <<>>
    ELSE InsertNewestFirst(SortedNewestFirst(SubSeq(items, 1, Len(items) - 1)),
                           items[Len(items)])

\* the scoped entries cut to NUM_FILES in insertion order, without the sort
get_directory_changes_unsorted(directory, all_file_updates) ==
    Take(dir_files(directory, all_file_updates), NUM_FILES)

get_directory_changes(directory, all_file_updates) ==
    Take(SortedNewestFirst(dir_files(directory, all_file_updates)), NUM_FILES)

\* ------------------------------------------------------------------------
\* Renderer
\* ------------------------------------------------------------------------
\* datetime.strftime("%Y-%m-%d") of a commit date: one token per calendar day
date_str(date) == <<"2024-01-0" \o ToString(date[1])>>

\* datetime.now().strftime("%Y-%m-%d %H:%M:%S"): one token per second of the clock
time_str(t) == <<"2024-02-01 00:00:0" \o ToString(t)>>

\* if len(commit_msg) > 60: commit_msg = commit_msg[:57] + "..."
truncate_msg(commit_msg) ==
    IF Len(commit_msg) > MSG_MAX THEN Take(commit_msg, MSG_KEEP) \o <<".", ".", ".">>
    ELSE commit_msg

\* rel_path.replace(' ', '%20')
encode_spaces(rel_path) == Replace(rel_path, <<" ">>, <<"%", "2", "0">>)

\* f"| [{file_name}]({file_link}) | {date_str} | {author} | [{commit_msg}]({commit_url}) |\n"
format_row(file_name, file_link, info) ==
    <<"| [">> \o file_name \o <<"](">> \o file_link \o <<") | ">> \o date_str(info.date)
    \o <<" | ">> \o info.author \o <<" | [">> \o truncate_msg(info.commit_message)
    \o <<"](">> \o info.commit_url \o <<") |", NL>>

\* if dir: rel_path = os.path.relpath(file_path, dir) else: rel_path = file_path
RelTo(dir, file_path) == IF dir # <<>> THEN relpath(file_path, dir) ELSE file_path

\* update_readmes.py: the link of a row, relative to the README's directory
readme_file_link(readme_path, file_path) ==
    encode_spaces(RelTo(dirname(readme_path), file_path))

\* update_readmes.py, lines 151-162: <<file_name, file_link>> of a row
readme_link(readme_path, file_path) ==
    << basename(file_path), readme_file_link(readme_path, file_path) >>

MD == <<".", "m", "d">>

MARKDOWN == <<".", "m", "a", "r", "k", "d", "o", "w", "n">>

README_MD == <<"R", "E", "A", "D", "M", "E", ".", "m", "d">>

README_LOWER == <<"r", "e", "a", "d", "m", "e", ".", "m", "d">>

POSTS_PREFIX == <<"_", "p", "o", "s", "t", "s", "/">>

\* len('_posts/')
POSTS_LEN == Len(POSTS_PREFIX)

\* re.match(r'_posts/(\d{4}-\d{2}-\d{2})-(.*?)\.md', file_path): the index at which
\* the first ".md" after the date starts, with no newline in the slug before it; 0 = no match
post_match(file_path) ==
    IF /\ StartsWith(file_path, POSTS_PREFIX)
       /\ Len(file_path) >= POSTS_LEN + 11
       /\ \A k \in {1, 2, 3, 4, 6, 7, 9, 10} : file_path[POSTS_LEN + k] \in DIGITS
       /\ \A k \in {5, 8, 11} : file_path[POSTS_LEN + k] = "-"
    THEN FirstOr0({e \in (POSTS_LEN + 12)..(Len(file_path) - 2) :
                      /\ SubSeq(file_path, e, e + 2) = MD
                      /\ \A k \in (POSTS_LEN + 12)..(e - 1) : file_path[k] # NL})
    ELSE 0

\* update_jekyll_readmes.py, lines 204-211: the loop variable file_path has replaced the
\* target, so the link is taken relative to the changed file's own directory
jekyll_plain_link(file_path) == encode_spaces(RelTo(dirname(file_path), file_path))

\* lines 224-226: <<file_name, file_link>> of a post
post_link(date_part, slug) ==
    << date_part \o <<":", " ">> \o Replace(slug, <<"-">>, <<" ">>),
       <<"/", "b", "l", "o", "g", "/">> \o slug >>

\* lines 220-234: <<file_name, file_link>> by file type; e is post_match(file_path)
site_link_by_type(file_path, file_name, e) ==
    IF StartsWith(file_path, POSTS_PREFIX)
    THEN IF e # 0
         THEN post_link(SubSeq(file_path, POSTS_LEN + 1, POSTS_LEN + 10),
                        SubSeq(file_path, POSTS_LEN + 12, e - 1))
         ELSE << file_name, <<"/">> \o Replace(file_path, MD, <<"/">>) >>
    ELSE IF splitext_ext(file_name) \in {MD, MARKDOWN} /\ ~EndsWith(file_path, README_MD)
    THEN << file_name,
            <<"/">> \o Replace(Replace(file_path, MD, <<"/">>), MARKDOWN, <<"/">>) >>
    ELSE << file_name, <<"/">> \o file_path >>

DirOrMain(dir) == IF dir # <<>> THEN dir ELSE <<"M", "a", "i", "n">>

\* lines 237-238: a README is labelled with its directory
relabel_readme(file_path, named) ==
    IF Lower(named[1]) = README_LOWER
    THEN << basename(DirOrMain(dirname(file_path))), named[2] >>
    ELSE named

\* update_jekyll_readmes.py, lines 214-238: <<file_name, file_link>> for a Jekyll target
jekyll_site_link(file_path) ==
    relabel_readme(file_path,
                   site_link_by_type(file_path, basename(file_path), post_match(file_path)))

\* update_jekyll_readmes.py, lines 203-241: <<file_name, file_link>> of a row
jekyll_link(is_jekyll, file_path) ==
    IF is_jekyll THEN jekyll_site_link(file_path)
    ELSE << basename(file_path), jekyll_plain_link(file_path) >>

\* recent_changes_content, given the rendered rows
fragment(rows, current_time) ==
    <<START_MARKER, NL, "## Recently Updated Files", NL, NL,
      "*Last updated: ">> \o current_time \o <<"*", NL, NL>>
    \o (IF rows # <<>>
        THEN <<"| File | Last Updated | Author | Commit Message |", NL,
               "| ---- | ------------ | ------ | -------------- |", NL>>
             \o Concat(rows, 1, Len(rows))
        ELSE <<"*No recent changes found in this directory*", NL>>)
    \o <<NL, END_MARKER>>

\* ------------------------------------------------------------------------
\* Splicer
\* ------------------------------------------------------------------------
ASCII_ESCAPES == {"a", "b", "f", "n", "r", "t", "v"}

\* re.sub parses a replacement that holds a backslash as a template (CPython >= 3.7).
\* The backslashes that introduce an escape: in a run of backslashes the first, the
\* third, ... (each of the others is the character the one before it escapes).
EscapeAt(repl) ==
    {i \in 1..Len(repl) :
        /\ repl[i] = BSL
        /\ MaxOf({k \in 0..(i - 1) : \A j \in (i - k)..(i - 1) : repl[j] = BSL}) % 2 = 0}

\* the template parses: no backslash before an ASCII letter that is no escape, before a
\* digit 1-9 (a group the pattern does not have) or at the end; otherwise re.error.
\* (\g<..> and three-digit octal escapes are not among the inputs.)
template_ok(repl) ==
    \A i \in EscapeAt(repl) :
        /\ i < Len(repl)
        /\ repl[i + 1] \notin DIGITS \ {"0"}
        /\ ~(IsAsciiLetter(repl[i + 1]) /\ repl[i + 1] \notin ASCII_ESCAPES)

\* what the escape of the character c stands for
escape_value(c) ==
    IF c = "n" THEN <<NL>>
    ELSE IF c = "t" THEN <<"\t">>
    ELSE IF c = "r" THEN <<"\r">>
    ELSE IF c \in {"a", "b", "f", "v"} THEN <<"chr:" \o c>>
    ELSE IF c = "0" THEN <<"chr:0">>
    ELSE IF c = BSL THEN <<BSL>>
    ELSE <<BSL, c>>

ExpandAt(repl, esc) ==
    Concat([i \in 1..Len(repl) |->
               IF i \in esc THEN (IF i < Len(repl) THEN escape_value(repl[i + 1])
                                  ELSE <<repl[i]>>)
               ELSE IF (i - 1) \in esc THEN <<>>
               ELSE <<repl[i]>>],
           1, Len(repl))

\* the text a well-formed template stands for
expand_template(repl) == ExpandAt(repl, EscapeAt(repl))

\* a greedy pattern (START.*END): one match, from the first start marker to the last
\* end marker
re_sub_greedy(content, repl) ==
    IF /\ Contains(content, <<START_MARKER>>)
       /\ RFind(content, END_MARKER) > FindFrom(content, <<START_MARKER>>, 1)
    THEN SubSeq(content, 1, FindFrom(content, <<START_MARKER>>, 1) - 1) \o repl
         \o Drop(content, RFind(content, END_MARKER))
    ELSE content

RECURSIVE re_sub(_, _)
RECURSIVE SubTo(_, _, _, _)
\* the match that starts at s ends at e (0: no end marker after s, so no match at all)
SubTo(content, repl, s, e) ==
    IF e = 0 THEN content
    ELSE SubSeq(content, 1, s - 1) \o repl \o re_sub(Drop(content, e), repl)

\* the first start marker is at s (0: none)
SubFrom(content, repl, s) ==
    IF s = 0 THEN content
    ELSE SubTo(content, repl, s, FindFrom(content, <<END_MARKER>>, s + 1))

\* re.sub(START.*?END, repl, content, flags=re.DOTALL) with repl already expanded:
\* every non-overlapping leftmost match, each from a start marker to the first end
\* marker after it
re_sub(content, repl) == SubFrom(content, repl, FindFrom(content, <<START_MARKER>>, 1))

\* START_MARKER in content and END_MARKER in content
has_markers(content) == Contains(content, <<START_MARKER>>) /\ Contains(content, <<END_MARKER>>)

\* lines 169-176: whether computing new_content raises re.error
splice_raises(content, recent_changes_content) ==
    has_markers(content) /\ ~template_ok(recent_changes_content)

\* lines 169-176: new_content
splice(content, recent_changes_content) ==
    IF has_markers(content)
    THEN re_sub(content, expand_template(recent_changes_content))
    ELSE content \o <<NL, NL>> \o recent_changes_content

\* ------------------------------------------------------------------------
\* Inputs: the paths, file bodies and commits the model draws from
\* ------------------------------------------------------------------------
P_ROOT_README == README_MD

P_DOCS_README == <<"d", "o", "c", "s", "/", "r", "e", "a", "d", "m", "e", ".", "m", "d">>

P_GITHUB_README == DOT_GITHUB \o <<"/">> \o README_MD

P_FILE_PY == <<"d", "o", "c", "s", "/", "s", "u", "b", "/", "f", "i", "l", "e", ".", "p", "y">>

P_SPACED == <<"d", "o", "c", "s", "/", "a", " ", "b", ".", "m", "d">>

P_MAIN == <<"m", "a", "i", "n", ".", "p", "y">>

P_WORKFLOW == DOT_GITHUB \o <<"/", "w", ".", "y", "m", "l">>

P_SITE == SITE_DIR \o <<"/", "x">>

P_POST == POSTS_PREFIX
          \o <<"2", "0", "2", "4", "-", "0", "3", "-", "0", "1", "-",
               "h", "e", "l", "l", "o", "-", "w", "o", "r", "l", "d", ".", "m", "d">>

P_MARKDOWN == <<"d", "o", "c", "s", "/", "n">> \o MARKDOWN

\* a markdown file in a directory whose name holds ".md"
P_MD_DIR == <<"d", "o", "c", "s", "/", "v", ".", "m", "d", "/", "n", ".", "m", "d">>

P_SUB_README == <<"d", "o", "c", "s", "/", "s", "u", "b", "/">> \o README_MD

\* eleven more files of the repository root: f0 .. f9, fa
BulkFiles == [i \in 1..11 |-> <<"f", <<"0","1","2","3","4","5","6","7","8","9","a">>[i]>>]

MSG_FIX == <<"f", "i", "x", " ", "b", "u", "g">>

\* headline "a\nb" with a literal backslash, then a second line
MSG_BACKSLASH_N == <<"a", BSL, "n", "b", NL, "m", "o", "r", "e">>

\* headline "r\d" with a literal backslash
MSG_BACKSLASH_D == <<"r", BSL, "d">>

\* a headline of MSG_MAX + 1 characters
MSG_LONG == [i \in 1..(MSG_MAX + 1) |-> "m"]

Commit(date, message, url, author, files) ==
    [date |-> date, message |-> message, html_url |-> <<url>>, author |-> <<author>>,
     files |-> files]

K_FIX ==
    Commit(<<2, 0>>, MSG_FIX, "u", "A",
           <<P_FILE_PY, P_DOCS_README, P_WORKFLOW, P_MARKDOWN, P_MD_DIR, P_SUB_README>>)

K_NEWER == Commit(<<3, 0>>, MSG_BACKSLASH_N, "u2", "B", <<LICENSE, P_FILE_PY, P_SPACED>>)

K_BULK == Commit(<<1, 5>>, MSG_LONG, "u3", "C", <<P_ROOT_README, P_MAIN>> \o BulkFiles)

K_TIE == Commit(<<2, 0>>, MSG_BACKSLASH_D, "u4", "D", <<P_SITE, P_POST, P_FILE_PY>>)

CommitSamples == {K_FIX, K_NEWER, K_BULK, K_TIE}

\* every commit history of at most MaxCommits commits
Histories == UNION {[1..n -> CommitSamples] : n \in 0..MaxCommits}

FRONT_MATTER == <<"-", "-", "-", NL, "t", NL, "-", "-", "-", NL>>

PlainBody == <<"#", " ", "T">>

RootBodies ==
    { PlainBody,
      <<"x", START_MARKER, "o", "l", "d", END_MARKER, "y">>,
      <<"x", START_MARKER, "y">>,
      <<END_MARKER, "x", START_MARKER>>,
      <<"a", START_MARKER, "o", END_MARKER, "b", START_MARKER, "p", END_MARKER, "c">>,
      <<"x", START_MARKER, "o", END_MARKER, "b", END_MARKER>> }

DocsBodies ==
    { <<"d">>,
      FRONT_MATTER \o <<START_MARKER, "o", END_MARKER, NL>> }

\* the working trees a run may start on: <<body of README.md, body of docs/readme.md>>
Trees ==
    {<<rb, <<"d">>>> : rb \in RootBodies} \cup {<<PlainBody, db>> : db \in DocsBodies}

InitialFiles(root_body, docs_body) ==
    (P_ROOT_README   :> root_body) @@
    (P_DOCS_README   :> docs_body) @@
    (P_GITHUB_README :> <<"g">>) @@
    (P_FILE_PY       :> <<"p", "y">>) @@
    (P_POST          :> FRONT_MATTER \o <<"h", "i">>)

\* ------------------------------------------------------------------------
\* State
\* ------------------------------------------------------------------------
VARIABLES
    script,        \* which of the two scripts runs: "readmes" or "jekyll"
    fs,            \* the working tree: path -> body of every existing file
    commits,       \* what repo.get_commits() yields, in the order it yields it
    now,           \* the wall clock, in seconds
    run,           \* number of the current invocation of the script
    pc,            \* position in update_all_readmes / update_all_files
    targets,       \* readme_files / markdown_files
    idx,           \* position of the for loop over targets
    nseen,         \* number of commits the loop of get_repo_changes has processed
    file_updates,  \* the dict built by get_repo_changes, keys in insertion order
    written,       \* paths opened for writing by this run
    writes,        \* the update calls of this run that wrote: <<[target, dest, text]>>
    failedAt,      \* index of the target whose update raised in this run; 0 if none
    last,          \* what the latest update call read, rendered and wrote; reread: see rereads
    produced       \* path -> [text, frag]: what an update call last wrote there

vars == <<script, fs, commits, now, run, pc, targets, idx, nseen, file_updates,
          written, writes, failedAt, last, produced>>

NoCall ==
    [wrote |-> FALSE, target |-> <<>>, content |-> <<>>, is_jekyll |-> FALSE,
     recent |-> <<>>, links |-> <<>>, frag |-> <<>>, new_content |-> <<>>, dest |-> <<>>,
     reread |-> FALSE]

Init ==
    /\ script \in {"readmes", "jekyll"}
    /\ \E tree \in Trees : fs = InitialFiles(tree[1], tree[2])
    /\ commits \in Histories
    /\ now = 0
    /\ run = 1
    /\ pc = "start"
    /\ targets = <<>>
    /\ idx = 0
    /\ nseen = 0
    /\ file_updates = <<>>
    /\ written = {}
    /\ writes = <<>>
    /\ failedAt = 0
    /\ last = NoCall
    /\ produced = <<>>

\* ------------------------------------------------------------------------
\* Exclusion Filter and Change Aggregator, on the running script's patterns
\* ------------------------------------------------------------------------
EXCLUDE_PATTERNS ==
    IF script = "readmes" THEN EXCLUDE_PATTERNS_README ELSE EXCLUDE_PATTERNS_JEKYLL

\* a loop that returns after testing the first pattern only
should_exclude_first_pattern(path) == re_match(Head(EXCLUDE_PATTERNS), path)

should_exclude(path) == ExcludeLoop(EXCLUDE_PATTERNS, path)

\* lines 105-116: what one touched file does to the dict
track_file(d, commit, file_path) ==
    IF should_exclude(file_path) THEN d
    ELSE IF Newer(d, file_path, commit.date) THEN DictSet(d, Record(file_path, commit))
    ELSE d

RECURSIVE track_files(_, _, _)
\* for file in commit.files: ... (the body of the loop over commits)
track_files(d, commit, files) ==
    IF files = <<>> THEN d
    ELSE track_files(track_file(d, commit, Head(files)), commit, Tail(files))

\* ------------------------------------------------------------------------
\* File Discovery
\* ------------------------------------------------------------------------
INDEX_MD == <<"i", "n", "d", "e", "x", ".", "m", "d">>

\* the names a target may have, lower-cased
TargetNames == IF script = "readmes" THEN {README_LOWER} ELSE {README_LOWER, INDEX_MD}

\* the substrings of a walked directory that make os.walk's loop skip it
SkipSubstrings ==
    IF script = "readmes" THEN {DOT_GIT} ELSE {DOT_GIT, SITE_DIR, JEKYLL_CACHE, SASS_CACHE}

WalkRootOf(dir) == IF dir = <<>> THEN <<".">> ELSE <<".", "/">> \o dir

\* the `root` os.walk('.') reports for the directory of p
walk_root(p) == WalkRootOf(dirname(p))

Discovered ==
    {p \in DOMAIN fs : /\ Lower(basename(p)) \in TargetNames
                       /\ \A d \in SkipSubstrings : ~Contains(walk_root(p), d)}

\* d lies strictly below e (both as directory prefixes)
Below(d, e) == d # e /\ StartsWith(d, e)

\* os.walk is top-down: the files of a directory come before those of its subdirectories;
\* the order among sibling directories and among the files of one directory is the
\* file system's
WalkOrders(S) ==
    {f \in [1..Cardinality(S) -> S] :
        /\ \A i, j \in 1..Cardinality(S) : i # j => f[i] # f[j]
        /\ \A i, j \in 1..Cardinality(S) :
              i < j => ~Below(directory_prefix(f[i]), directory_prefix(f[j]))}

\* ------------------------------------------------------------------------
\* Jekyll helpers
\* ------------------------------------------------------------------------
JEKYLL_DIRS ==
    << <<"_", "p", "o", "s", "t", "s">>, <<"_", "p", "a", "g", "e", "s">>,
       <<"_", "l", "a", "y", "o", "u", "t", "s">>, <<"_", "i", "n", "c", "l", "u", "d", "e", "s">>,
       <<"a", "s", "s", "e", "t", "s">>, <<"i", "m", "g">>, <<"v", "i", "d", "e", "o">> >>

\* os.path.join(jekyll_dir, 'index.md')
index_path(jekyll_dir) == jekyll_dir \o <<"/">> \o INDEX_MD

\* os.path.isdir(d): a directory exists when a file lies below it
isdir(d) == \E p \in DOMAIN fs : StartsWith(p, d \o <<"/">>)

is_jekyll_file(file_path) ==
    \/ \E k \in 1..Len(JEKYLL_DIRS) : StartsWith(file_path, JEKYLL_DIRS[k] \o <<"/">>)
    \/ /\ file_path \in DOMAIN fs
       /\ StartsWith(Strip(Take(fs[file_path], FRONT_MATTER_READ)), <<"-", "-", "-">>)

\* the front matter and heading written for a directory whose capitalized name is title
front_and_heading(title) ==
    <<"-", "-", "-", NL, "layout: default", NL, "title: ">> \o title
    \o <<" Directory", NL, "-", "-", "-", NL, NL, "# ">> \o title \o <<" Directory", NL, NL>>

\* the body create_jekyll_indexes writes for jekyll_dir
index_body(jekyll_dir) ==
    front_and_heading(Capitalize(jekyll_dir))
    \o <<"This directory contains ">> \o Lower(jekyll_dir)
    \o <<" files.", NL, NL, START_MARKER, NL, "## Recently Updated Files", NL, NL,
         "*Updates will appear here after the next run*", NL, NL, END_MARKER>>

\* the directories create_jekyll_indexes writes an index for
MissingIndexes ==
    {k \in 1..Len(JEKYLL_DIRS) :
        isdir(JEKYLL_DIRS[k]) /\ index_path(JEKYLL_DIRS[k]) \notin DOMAIN fs}

\* fs after create_jekyll_indexes has written the indexes of the directories in missing
with_indexes(files, missing) ==
    [q \in DOMAIN files \cup {index_path(JEKYLL_DIRS[k]) : k \in missing} |->
        IF \E k \in missing : index_path(JEKYLL_DIRS[k]) = q
        THEN index_body(JEKYLL_DIRS[CHOOSE k \in missing : index_path(JEKYLL_DIRS[k]) = q])
        ELSE files[q]]

\* ------------------------------------------------------------------------
\* One call of update_readme / update_file, up to the write
\* ------------------------------------------------------------------------
ROOT_NAME == <<"R", "o", "o", "t">>

DirOrRoot(dir) == IF dir # <<>> THEN dir ELSE ROOT_NAME

\* update_readmes.py, lines 126-129: the body used when the README does not exist
readme_placeholder(readme_path) ==
    <<"# ">> \o DirOrRoot(dirname(readme_path)) \o <<" Directory", NL, NL>>

\* update_jekyll_readmes.py, lines 164-175
file_placeholder(file_path) ==
    IF Lower(basename(file_path)) = INDEX_MD
    THEN front_and_heading(Capitalize(DirOrRoot(dirname(file_path))))
    ELSE <<"# ">> \o Capitalize(DirOrRoot(dirname(file_path))) \o <<" Directory", NL, NL>>

\* the rows of the table
Rows(recent, links) == [k \in 1..Len(recent) |-> format_row(links[k][1], links[k][2], recent[k])]

\* everything a call computed, and the path it opens for writing
CallRecord(target, content, is_jekyll, recent, links, frag, dest) ==
    [wrote |-> TRUE, target |-> target, content |-> content, is_jekyll |-> is_jekyll,
     recent |-> recent, links |-> links, frag |-> frag,
     new_content |-> splice(content, frag), dest |-> dest, reread |-> FALSE]

Rendered(target, content, is_jekyll, recent, links, t, dest) ==
    CallRecord(target, content, is_jekyll, recent, links,
               fragment(Rows(recent, links), time_str(t)), dest)

\* update_readme, lines 131-180, given the text read and the scoped changes
readme_render(readme_path, content, recent, t) ==
    Rendered(readme_path, content, FALSE, recent,
             [k \in 1..Len(recent) |-> readme_link(readme_path, recent[k].path)],
             t, readme_path)

\* update_readme(readme_path, all_file_updates) at clock t
readme_call(readme_path, all_file_updates, t) ==
    readme_render(readme_path,
                  IF readme_path \in DOMAIN fs THEN fs[readme_path]
                  ELSE readme_placeholder(readme_path),
                  get_directory_changes(readme_path, all_file_updates), t)

\* update_file, lines 177-263, given the text read and the scoped changes.  The loop
\* `for file_path, info in recent_files` rebinds the parameter file_path: after a
\* non-empty loop, lines 259-263 create the directory of, and open for writing, the
\* last listed file.
file_render(file_path, is_jekyll, content, recent, t) ==
    Rendered(file_path, content, is_jekyll, recent,
             [k \in 1..Len(recent) |-> jekyll_link(is_jekyll, recent[k].path)],
             t, IF recent # <<>> THEN recent[Len(recent)].path ELSE file_path)

\* update_file(file_path, all_file_updates) at clock t
file_call(file_path, all_file_updates, t) ==
    file_render(file_path, is_jekyll_file(file_path),
                IF file_path \in DOMAIN fs THEN fs[file_path] ELSE file_placeholder(file_path),
                get_directory_changes(file_path, all_file_updates), t)

\* ------------------------------------------------------------------------
\* Actions
\* ------------------------------------------------------------------------
\* fs after open(path, 'w').write(text)
write_file(files, path, text) ==
    [q \in DOMAIN files \cup {path} |-> IF q = path THEN text ELSE files[q]]

\* update_all_readmes, line 187
find_readme_files ==
    /\ script = "readmes"
    /\ pc = "start"
    /\ targets' \in WalkOrders(Discovered)
    /\ pc' = "aggregate"
    /\ UNCHANGED <<script, fs, commits, now, run, idx, nseen, file_updates,
                   written, writes, failedAt, last, produced>>

\* update_all_files, line 289
create_jekyll_indexes ==
    /\ script = "jekyll"
    /\ pc = "start"
    /\ fs' = with_indexes(fs, MissingIndexes)
    /\ written' = written \cup {index_path(JEKYLL_DIRS[k]) : k \in MissingIndexes}
    /\ pc' = "find"
    /\ UNCHANGED <<script, commits, now, run, targets, idx, nseen, file_updates,
                   writes, failedAt, last, produced>>

\* update_all_files, line 292
find_readme_and_index_files ==
    /\ script = "jekyll"
    /\ pc = "find"
    /\ targets' \in WalkOrders(Discovered)
    /\ pc' = "aggregate"
    /\ UNCHANGED <<script, fs, commits, now, run, idx, nseen, file_updates,
                   written, writes, failedAt, last, produced>>

\* get_repo_changes: one iteration of `for commit in commits[:100]`
ProcessCommit ==
    /\ pc = "aggregate"
    /\ nseen < Min(Len(commits), COMMIT_LIMIT)
    /\ file_updates' = track_files(file_updates, commits[nseen + 1], commits[nseen + 1].files)
    /\ nseen' = nseen + 1
    /\ UNCHANGED <<script, fs, commits, now, run, pc, targets, idx,
                   written, writes, failedAt, last, produced>>

\* get_repo_changes: the loop is over, `return file_updates`
ReturnChanges ==
    /\ pc = "aggregate"
    /\ nseen = Min(Len(commits), COMMIT_LIMIT)
    /\ pc' = "update"
    /\ idx' = 1
    /\ UNCHANGED <<script, fs, commits, now, run, targets, nseen, file_updates,
                   written, writes, failedAt, last, produced>>

\* get_repo_changes: the client, the repository lookup or a page of commits raises;
\* nothing catches it and the run ends
ApiError ==
    /\ pc = "aggregate"
    /\ pc' = "api_error"
    /\ UNCHANGED <<script, fs, commits, now, run, targets, idx, nseen, file_updates,
                   written, writes, failedAt, last, produced>>

\* a loop that catches the exception of one call and goes on to the next target
raise_caught(call, kind) ==
    /\ pc' = pc
    /\ failedAt' = idx
    /\ last' = [call EXCEPT !.wrote = FALSE, !.new_content = <<>>]
    /\ idx' = idx + 1
    /\ UNCHANGED <<writes, produced>>

\* the call raised: nothing in the for loop over the targets catches the exception,
\* which ends the script
raise(call, kind) ==
    /\ pc' = kind
    /\ failedAt' = idx
    /\ last' = [call EXCEPT !.wrote = FALSE, !.new_content = <<>>]
    /\ UNCHANGED <<idx, writes, produced>>

\* the text the call read is what an earlier call wrote to its target, and that call
\* rendered the same fragment (same scoped changes, same clock)
rereads(call) ==
    /\ call.target \in DOMAIN produced
    /\ produced[call.target].text = call.content
    /\ produced[call.target].frag = call.frag

\* the call wrote and returned: the for loop goes on
return(call) ==
    /\ fs' = write_file(fs, call.dest, call.new_content)
    /\ written' = written \cup {call.dest}
    /\ writes' = Append(writes, [target |-> call.target, dest |-> call.dest,
                                 text |-> call.new_content])
    /\ produced' = [q \in DOMAIN produced \cup {call.dest} |->
                       IF q = call.dest THEN [text |-> call.new_content, frag |-> call.frag]
                       ELSE produced[q]]
    /\ last' = [call EXCEPT !.reread = rereads(call)]
    /\ idx' = idx + 1
    /\ UNCHANGED <<pc, failedAt>>

\* a call in which no file operation fails: re.sub may still raise re.error
complete(call) ==
    IF splice_raises(call.content, call.frag)
    THEN raise(call, "re_error") /\ UNCHANGED <<fs, written>>
    ELSE return(call)

\* update_all_readmes, line 196: update_readme(readme_path, all_file_updates)
update_readme ==
    /\ script = "readmes"
    /\ pc = "update"
    /\ idx <= Len(targets)
    /\ \E t \in now..MaxNow :
          now' = t /\ complete(readme_call(targets[idx], file_updates, t))
    /\ UNCHANGED <<script, commits, run, targets, nseen, file_updates>>

\* update_all_files, line 301: update_file(file_path, all_file_updates)
update_file ==
    /\ script = "jekyll"
    /\ pc = "update"
    /\ idx <= Len(targets)
    /\ \E t \in now..MaxNow :
          now' = t /\ complete(file_call(targets[idx], file_updates, t))
    /\ UNCHANGED <<script, commits, run, targets, nseen, file_updates>>

\* open(path, 'r') raises something other than FileNotFoundError
ReadError ==
    /\ pc = "update"
    /\ idx <= Len(targets)
    /\ raise([NoCall EXCEPT !.target = targets[idx]], "io_error")
    /\ UNCHANGED <<script, fs, commits, now, run, targets, nseen, file_updates, written>>

\* the call the loop over targets makes for targets[idx], at clock t
TheCall(t) ==
    IF script = "readmes" THEN readme_call(targets[idx], file_updates, t)
    ELSE file_call(targets[idx], file_updates, t)

\* the write of call fails: open(path, 'w') raises and the file is left as it was, or
\* the write after it raises and the file has been truncated
fail_write(call, truncated) ==
    /\ ~splice_raises(call.content, call.frag)
    /\ raise(call, "io_error")
    /\ fs' = IF truncated THEN write_file(fs, call.dest, <<>>) ELSE fs
    /\ written' = IF truncated THEN written \cup {call.dest} ELSE written

WriteError ==
    /\ pc = "update"
    /\ idx <= Len(targets)
    /\ \E t \in now..MaxNow, truncated \in BOOLEAN :
          now' = t /\ fail_write(TheCall(t), truncated)
    /\ UNCHANGED <<script, commits, run, targets, nseen, file_updates>>

\* the for loop over the targets is over
Finish ==
    /\ pc = "update"
    /\ idx > Len(targets)
    /\ pc' = "done"
    /\ UNCHANGED <<script, fs, commits, now, run, targets, idx, nseen, file_updates,
                   written, writes, failedAt, last, produced>>

Ended == pc \in {"done", "api_error", "io_error", "re_error"}

\* the workflow starts the script again, on the working tree the last run left and
\* with the commit history unchanged
Rerun ==
    /\ Ended
    /\ run < MaxRuns
    /\ run' = run + 1
    /\ pc' = "start"
    /\ targets' = <<>>
    /\ idx' = 0
    /\ nseen' = 0
    /\ file_updates' = <<>>
    /\ written' = {}
    /\ writes' = <<>>
    /\ failedAt' = 0
    /\ last' = NoCall
    /\ UNCHANGED <<script, fs, commits, now, produced>>

\* one invocation of the script
Run ==
    \/ find_readme_files
    \/ create_jekyll_indexes
    \/ find_readme_and_index_files
    \/ ProcessCommit
    \/ ReturnChanges
    \/ ApiError
    \/ update_readme
    \/ update_file
    \/ ReadError
    \/ WriteError
    \/ Finish

Spec == Init /\ [][Run]_vars

\* invocation after invocation, as the workflow schedules them
Next == Run \/ Rerun

SpecRerun == Init /\ [][Next]_vars

TypeOK ==
    /\ script \in {"readmes", "jekyll"}
    /\ pc \in {"start", "find", "aggregate", "update", "done", "api_error", "io_error", "re_error"}
    /\ run \in 1..MaxRuns
    /\ now \in 0..MaxNow
    /\ nseen \in 0..Len(commits)
    /\ idx \in 0..(Len(targets) + 1)
    /\ failedAt \in 0..Len(targets)

\* ------------------------------------------------------------------------
\* Notions the properties are stated with, defined without the scripts' own helpers
\* ------------------------------------------------------------------------
TargetSet == {targets[k] : k \in 1..Len(targets)}

IndexPaths == {JEKYLL_DIRS[k] \o <<"/">> \o INDEX_MD : k \in 1..Len(JEKYLL_DIRS)}

Keys(d) == {d[i].path : i \in 1..Len(d)}

\* the target's directory with its trailing slash; empty for a target at the root
TargetDirPrefix(t) ==
    IF \E i \in 1..Len(t) : t[i] = "/"
    THEN SubSeq(t, 1, MaxOf({i \in 1..Len(t) : t[i] = "/"})) ELSE <<>>

\* s is where a marker-delimited region of c starts: a start marker with an end marker
\* after it, not inside a region that started earlier
IsRegionStart(c, s) ==
    /\ c[s] = START_MARKER
    /\ \E j \in (s + 1)..Len(c) : c[j] = END_MARKER
    /\ \A q \in 1..(s - 1) : c[q] = START_MARKER => \E k \in (q + 1)..(s - 1) : c[k] = END_MARKER

RegionStarts(c) == {s \in 1..Len(c) : IsRegionStart(c, s)}

\* the end marker that closes the region starting at s
RegionEnd(c, s) == MinOf({j \in (s + 1)..Len(c) : c[j] = END_MARKER})

BothMarkers(c) ==
    (\E i \in 1..Len(c) : c[i] = START_MARKER) /\ (\E i \in 1..Len(c) : c[i] = END_MARKER)

\* part occurs in text as a contiguous block
Occurs(part, text) ==
    \E i \in 1..(Len(text) - Len(part) + 1) : SubSeq(text, i, i + Len(part) - 1) = part

\* commit number k of the history touches path
Touches(k, path) == \E i \in 1..Len(commits[k].files) : commits[k].files[i] = path

\* h is the first line of the commit message m
IsHeadline(h, m) ==
    /\ Len(h) <= Len(m)
    /\ h = SubSeq(m, 1, Len(h))
    /\ \A i \in 1..Len(h) : h[i] # NL
    /\ Len(h) = Len(m) \/ m[Len(h) + 1] = NL

Matched(path) == \E j \in 1..Len(EXCLUDE_PATTERNS) : re_match(EXCLUDE_PATTERNS[j], path)

Reverse(q) == [i \in 1..Len(q) |-> q[Len(q) + 1 - i]]

\* ------------------------------------------------------------------------
\* C1
\* ------------------------------------------------------------------------
\* C1: in both scripts a run writes only target markdown files: every update call opens
\* its own target for writing, and every path written in the run is a discovered target
\* or an index.md created for a Jekyll directory, never a file that is merely listed.
C1_WritesOnlyTargets ==
    /\ last.wrote => last.dest = last.target
    /\ \A q \in written : q \in TargetSet \cup IndexPaths

\* ------------------------------------------------------------------------
\* C2
\* ------------------------------------------------------------------------
\* C2: when the text read holds a marker-delimited region, the text written back
\* starts with everything that preceded the (first) start marker and ends with
\* everything that followed the (last region's) end marker, unchanged; what lies
\* between still starts with the start marker and ends with the end marker.
C2_OutsidePreserved ==
    (last.wrote /\ RegionStarts(last.content) # {}) =>
        LET c    == last.content
            o    == last.new_content
            s    == MinOf(RegionStarts(c))
            e    == RegionEnd(c, MaxOf(RegionStarts(c)))
            tail == Len(c) - e
        IN  /\ Len(o) >= (s - 1) + tail + 2
            /\ SubSeq(o, 1, s - 1) = SubSeq(c, 1, s - 1)
            /\ SubSeq(o, Len(o) - tail + 1, Len(o)) = SubSeq(c, e + 1, Len(c))
            /\ o[s] = START_MARKER
            /\ o[Len(o) - tail] = END_MARKER

\* a call that read text before the fragment, two fragments and text after them, and
\* wrote something else back
C2_Witness ==
    /\ last.wrote
    /\ Cardinality(RegionStarts(last.content)) = 2
    /\ MinOf(RegionStarts(last.content)) > 1
    /\ RegionEnd(last.content, MaxOf(RegionStarts(last.content))) < Len(last.content)
    /\ last.new_content # last.content

\* ------------------------------------------------------------------------
\* C3
\* ------------------------------------------------------------------------
\* C3: splicing is idempotent for a fixed rendering: when an update reads back, from
\* its target, exactly the text an earlier update wrote there, and renders the same
\* fragment as that earlier update did, the text it writes equals the text it read.
C3_Idempotent ==
    (last.wrote /\ last.reread) => last.new_content = last.content

\* ------------------------------------------------------------------------
\* C4
\* ------------------------------------------------------------------------
\* C4: the list get_directory_changes returns for a target never holds the target's
\* own path, has at most NUM_FILES entries, is ordered by non-increasing commit date,
\* and each entry is an entry of the aggregated changes whose path starts with the
\* target directory's prefix.
C4_ScopedChanges ==
    LET r == last.recent IN
    /\ \A k \in 1..Len(r) : r[k].path # last.target
    /\ Len(r) <= NUM_FILES
    /\ \A k \in 1..(Len(r) - 1) : ~DateGT(r[k + 1].date, r[k].date)
    /\ \A k \in 1..Len(r) :
          /\ \E j \in 1..Len(file_updates) : file_updates[j] = r[k]
          /\ Len(r[k].path) >= Len(TargetDirPrefix(last.target))
          /\ SubSeq(r[k].path, 1, Len(TargetDirPrefix(last.target)))
                = TargetDirPrefix(last.target)

\* a call whose target is itself among the aggregated changes, with more than NUM_FILES
\* other candidates of different dates, the newest aggregated after the older ones
C4_Witness ==
    /\ last.wrote
    /\ last.target \in Keys(file_updates)
    /\ Len(file_updates) > NUM_FILES + 1
    /\ Len(last.recent) = NUM_FILES
    /\ last.recent[1].date # last.recent[NUM_FILES].date
    /\ \E i, j \in 1..Len(file_updates) :
          i < j /\ DateGT(file_updates[j].date, file_updates[i].date)

\* ------------------------------------------------------------------------
\* C5
\* ------------------------------------------------------------------------
\* C5: while and after the commits are aggregated, the change map holds each path
\* once, and the record kept for a path is the record (date, author, message headline,
\* URL together) of a processed commit that touches the path and whose date no other
\* processed commit touching the path exceeds.
C5_LatestPerPath ==
    /\ \A i, j \in 1..Len(file_updates) :
          i # j => file_updates[i].path # file_updates[j].path
    /\ \A i \in 1..Len(file_updates) :
          LET e == file_updates[i] IN
          /\ \E k \in 1..nseen :
                /\ Touches(k, e.path)
                /\ e.date = commits[k].date
                /\ e.author = commits[k].author
                /\ e.commit_url = commits[k].html_url
                /\ IsHeadline(e.commit_message, commits[k].message)
          /\ \A k \in 1..nseen : Touches(k, e.path) => ~DateGT(commits[k].date, e.date)

\* two processed commits touch a path, the one listed second being the older one, and
\* the map holds the path with the first commit's date
C5_Witness ==
    /\ nseen = 2
    /\ DateGT(commits[1].date, commits[2].date)
    /\ \E i \in 1..Len(file_updates) :
          /\ Touches(1, file_updates[i].path)
          /\ Touches(2, file_updates[i].path)
          /\ file_updates[i].date = commits[1].date

\* ------------------------------------------------------------------------
\* C6
\* ------------------------------------------------------------------------
\* C6: whenever an update writes, then if the text it read holds both markers the
\* text written back holds the freshly rendered fragment, and otherwise the text
\* written back is the text read followed by two newlines and the fragment.
C6_FreshFragment ==
    last.wrote =>
        IF BothMarkers(last.content)
        THEN Occurs(last.frag, last.new_content)
        ELSE last.new_content = last.content \o <<NL, NL>> \o last.frag

\* ------------------------------------------------------------------------
\* C7
\* ------------------------------------------------------------------------
\* C7: no file is created or modified before the aggregation has succeeded: a run in
\* which the API raised has written nothing, and whatever a run has written, it wrote
\* after get_repo_changes returned.
C7_NoWriteBeforeAggregation ==
    written # {} => pc \notin {"start", "find", "aggregate", "api_error"}

C9_RelativeLinks ==
    (last.target # <<>> /\ ~last.is_jekyll) =>
        /\ Len(last.links) = Len(last.recent)
        /\ \A k \in 1..Len(last.recent) :
              LET path == last.recent[k].path
                  rel  == SubSeq(path, Len(TargetDirPrefix(last.target)) + 1, Len(path))
                  base == SubSeq(path, Len(TargetDirPrefix(path)) + 1, Len(path))
              IN  /\ last.links[k][1] = base
                  /\ last.links[k][2] = encode_spaces(rel)

\* ------------------------------------------------------------------------
\* C10
\* ------------------------------------------------------------------------
\* C10: no key of the change map, and so no row rendered from it, is a path that any
\* pattern of the script's EXCLUDE_PATTERNS matches at its start; whether a path is
\* excluded is decided by the set of patterns, not by the order they are tried in.
C10_NoExcludedKey ==
    /\ \A i \in 1..Len(file_updates) : ~Matched(file_updates[i].path)
    /\ \A k \in 1..Len(last.recent) : ~Matched(last.recent[k].path)
    /\ \A k \in 1..Len(commits) : \A i \in 1..Len(commits[k].files) :
          /\ should_exclude(commits[k].files[i]) <=> Matched(commits[k].files[i])
          /\ ExcludeLoop(Reverse(EXCLUDE_PATTERNS), commits[k].files[i])
                <=> Matched(commits[k].files[i])

\* an update rendered rows from a history whose processed commits touch an excluded
\* path that only a later pattern of the list matches, and a path that is kept
C10_Witness ==
    /\ last.wrote
    /\ Len(last.recent) > 0
    /\ \E k \in 1..nseen : \E i \in 1..Len(commits[k].files) :
          /\ Matched(commits[k].files[i])
          /\ ~re_match(Head(EXCLUDE_PATTERNS), commits[k].files[i])

\* ------------------------------------------------------------------------
\* C11
\* ------------------------------------------------------------------------
\* path ends with the extension ext, after a non-empty stem of its last component
HasExtension(path, ext) ==
    /\ Len(path) - Len(TargetDirPrefix(path)) > Len(ext)
    /\ SubSeq(path, Len(path) - Len(ext) + 1, Len(path)) = ext

\* path with its extension ext cut off
Stem(path, ext) == SubSeq(path, 1, Len(path) - Len(ext))

\* the last component of path
LastComponent(path) == SubSeq(path, Len(TargetDirPrefix(path)) + 1, Len(path))

\* C11: for a Jekyll target, the link of every changed path outside _posts/ is: for a
\* path with extension .md or .markdown that is not a README, "/" followed by the path
\* with that extension alone replaced by "/"; for a file named README.md and for every
\* path with another extension, "/" followed by the path unchanged.
C11_SiteLinks ==
    (last.target # <<>> /\ last.is_jekyll) =>
        \A k \in 1..Len(last.recent) :
            LET path == last.recent[k].path
                link == last.links[k][2]
            IN  IF Len(path) >= POSTS_LEN /\ SubSeq(path, 1, POSTS_LEN) = POSTS_PREFIX
                THEN TRUE
                ELSE IF LastComponent(path) = README_MD
                THEN link = <<"/">> \o path
                ELSE IF Lower(LastComponent(path)) = README_LOWER
                THEN TRUE
                ELSE IF HasExtension(path, MD)
                THEN link = <<"/">> \o Stem(path, MD) \o <<"/">>
                ELSE IF HasExtension(path, MARKDOWN)
                THEN link = <<"/">> \o Stem(path, MARKDOWN) \o <<"/">>
                ELSE link = <<"/">> \o path

====
